---- MODULE Spec2Model ----
(***************************************************************************)
(* Model of py9kw.py: one Py9kw solver object (a captcha session against   *)
(* 9kw.eu) as a state machine.  The remote service, the image host and the *)
(* transport are the environment: every request either faults or returns a *)
(* JSON object drawn from a small set of shapes.                           *)
(***************************************************************************)
EXTENDS Integers, Sequences, FiniteSets, TLC

\* ---------------------------------------------------------------- constants
PARAM_MAX_PRIO == 20
PARAM_DEFAULT_PRIO == -1
PARAM_MIN_MAXTIMEOUT == 60
PARAM_MAX_MAXTIMEOUT == 3999
PARAM_MIN_CREDITS_TO_SOLVE_ONE_CAPTCHA == 10
\* waitSecondsPerLoop as set by __init__ and the fallback of getWaitSecondsPerLoop
WAIT_DEFAULT == 10
WAIT_FALLBACK == 10
\* error codes the client itself assigns
CODE_NO_ERROR == -1
CODE_NO_USER == 600
CODE_INTERNAL_TIMEOUT == 601
CODE_NO_ANSWER_YET == 602
CODE_DOWNLOAD_FAILURE == 603
CODE_PARSE_FALLBACK == 666

\* ------------------------------------------------------------------- bounds
\* the service hands out captcha ids 1..MaxId
MaxId == 1
\* the largest timeout a caller passes (effective timeouts stay in 60..MaxTimeoutArg)
MaxTimeoutArg == 75
\* the largest priority a caller passes when the cost is examined
MaxPrioArg == 22
\* the longest 'error' text the service sends when the parser is examined
MaxErrLen == 6

\* ------------------------------------------------------------ value helpers
\* Python's None / an absent JSON key is the empty sequence, a present value v is <<v>>
None == <<>>
Some(v) == <<v>>

\* a credits value is a number or a numeric string (the API sends both)
IntCred(n) == [isStr |-> FALSE, v |-> n]
StrCred(n) == [isStr |-> TRUE, v |-> n]

\* a returned value: kind "none" (None), "int", "str", "bool", "cred", or "raise" (an exception left the call)
RetNone == [kind |-> "none", n |-> 0, s |-> ""]
RetInt(i) == [kind |-> "int", n |-> i, s |-> ""]
RetStr(t) == [kind |-> "str", n |-> 0, s |-> t]
RetBool(b) == [kind |-> "bool", n |-> IF b THEN 1 ELSE 0, s |-> ""]
RetCred(c) == [kind |-> IF c.isStr THEN "credstr" ELSE "int", n |-> c.v, s |-> ""]
RetRaise(what) == [kind |-> "raise", n |-> 0, s |-> what]

Min(a, b) == IF a <= b THEN a ELSE b
CeilDiv(a, b) == (a + b - 1) \div b

\* ------------------------------------------------------- error-text parsing
\* an error text is a sequence of one-character strings
Digits == {"0", "1", "2", "3", "4", "5", "6", "7", "8", "9"}
DigitVal(c) ==
    CASE c = "0" -> 0 [] c = "1" -> 1 [] c = "2" -> 2 [] c = "3" -> 3 [] c = "4" -> 4
      [] c = "5" -> 5 [] c = "6" -> 6 [] c = "7" -> 7 [] c = "8" -> 8 [] c = "9" -> 9

\* re.compile(r'^(\d{4}) (.+)').search(text) finds a match
ErrorPatternMatches(t) ==
    /\ Len(t) >= 6
    /\ \A i \in 1..4 : t[i] \in Digits
    /\ t[5] = " "
    /\ t[6] # "\n"

\* group(2): '.+' is greedy and stops before the first newline
ErrorPatternMsgEnd(t) ==
    IF \E i \in 6..Len(t) : t[i] = "\n"
    THEN (CHOOSE i \in 6..Len(t) : t[i] = "\n" /\ \A j \in 6..(i - 1) : t[j] # "\n") - 1
    ELSE Len(t)

\* int(group(1))
ErrorPatternCode(t) == DigitVal(t[1]) * 1000 + DigitVal(t[2]) * 100 + DigitVal(t[3]) * 10 + DigitVal(t[4])

MSG_NONE == None
MSG_PARSE_FALLBACK == <<"Error while parsing error number and message">>
MSG_NO_ANSWER_YET == <<"NO_ANSWER_YET">>
MSG_NO_USER == <<"ERROR_NO_USER">>
MSG_INTERNAL_TIMEOUT == <<"ERROR_INTERNAL_TIMEOUT">>
MSG_DOWNLOAD_FAILURE == <<"CAPTCHA_DOWNLOAD_FAILURE">>

\* checkError(response): the (errorcode, errormsg) it leaves, from the response's 'error' key
checkError(err) ==
    IF err = None
    THEN [code |-> CODE_NO_ERROR, msg |-> MSG_NONE]
    ELSE IF ErrorPatternMatches(err[1])
         THEN [code |-> ErrorPatternCode(err[1]),
               msg |-> SubSeq(err[1], 6, ErrorPatternMsgEnd(err[1]))]
         ELSE [code |-> CODE_PARSE_FALLBACK, msg |-> MSG_PARSE_FALLBACK]

\* ------------------------------------------------------------------- inputs
ERR_0011 == <<"0", "0", "1", "1", " ", "m">>
ERR_GARBAGE == <<"x">>
ErrorFields == {None, Some(ERR_0011), Some(ERR_GARBAGE)}

PrioArgs == {10, 25}
TimeoutArgs == {30, MaxTimeoutArg}
WaitArgs == {0, 25}
CreditFields == {None, Some(IntCred(15)), Some(IntCred(42)), Some(StrCred(42))}
AnswerFields == {None, Some(""), Some("viearer"), Some("ERROR NO USER")}
NodataFields == {None, Some(1)}
TryAgainFields == {None, Some(0), Some(1)}
CaptchaIdFields == {None} \cup {Some(i) : i \in 0..MaxId}

\* the JSON object a request returns; keys an operation does not read are left out
EmptyResponse == [error |-> None, answer |-> None, nodata |-> None, credits |-> None, try_again |-> None]
FetchResponses ==
    [error : {None, Some(ERR_0011)}, answer : AnswerFields, nodata : NodataFields,
     credits : {None, Some(IntCred(15))}, try_again : TryAgainFields]

\* the shapes the service usually sends: not yet answered (with and without the hint),
\* solved (with and without a balance), no user, a provider error, nothing at all, refused
TypicalFetchResponses ==
    { [EmptyResponse EXCEPT !.nodata = Some(1), !.try_again = Some(1)],
      [EmptyResponse EXCEPT !.nodata = Some(1)],
      [EmptyResponse EXCEPT !.answer = Some("viearer")],
      [EmptyResponse EXCEPT !.answer = Some("viearer"), !.credits = Some(IntCred(15))],
      [EmptyResponse EXCEPT !.answer = Some("ERROR NO USER")],
      [EmptyResponse EXCEPT !.error = Some(ERR_0011)],
      EmptyResponse,
      [EmptyResponse EXCEPT !.try_again = Some(0)] }

\* ---------------------------------------------------------------- the state
VARIABLES
    verbose, prio, maxtimeout, captchaid, credits, waitSecondsPerLoop,
    errorcode, errormsg, response,
    \* position: "idle" between calls, "loop" inside sleepAndGetResult's while loop
    pc,
    \* sleepAndGetResult's locals
    pollWait, waitSecondsLeft, total_time_waited,
    \* observation of the last call: its name, its return value, the requests it issued,
    \* the sleeps of the poll loop, and (errorcode, errormsg, returned answer) of the last fetch
    lastOp, ret, net, nSleep, fetched, allNoAnswerYet,
    \* the 'error' value the last call handed to checkError (None when it handed none) and
    \* the parameters of the upload request the last call sent (None when it sent none)
    error_plain, getdata

vars == <<verbose, prio, maxtimeout, captchaid, credits, waitSecondsPerLoop,
          errorcode, errormsg, response, pc, pollWait, waitSecondsLeft,
          total_time_waited, lastOp, ret, net, nSleep, fetched, allNoAnswerYet,
          error_plain, getdata>>

config == <<verbose, prio, maxtimeout, waitSecondsPerLoop>>
session == <<captchaid, credits, errorcode, errormsg, response>>
locals == <<pollWait, waitSecondsLeft, total_time_waited, nSleep, fetched, allNoAnswerYet>>

NoFetch == [code |-> CODE_NO_ERROR, msg |-> MSG_NONE, answer |-> None]

\* __init__
Init ==
    /\ verbose = FALSE
    /\ prio = PARAM_DEFAULT_PRIO
    /\ maxtimeout = PARAM_MIN_MAXTIMEOUT
    /\ captchaid = -1
    /\ credits = IntCred(-1)
    /\ waitSecondsPerLoop = WAIT_DEFAULT
    /\ errorcode = CODE_NO_ERROR
    /\ errormsg = MSG_NONE
    /\ response = EmptyResponse
    /\ pc = "idle"
    /\ pollWait = 0
    /\ waitSecondsLeft = 0
    /\ total_time_waited = 0
    /\ lastOp = "init"
    /\ ret = RetNone
    /\ net = <<>>
    /\ nSleep = 0
    /\ fetched = NoFetch
    /\ allNoAnswerYet = FALSE
    /\ error_plain = None
    /\ getdata = None

\* every call starts from "idle" and clears the observation of the previous call;
\* err: the 'error' value given to checkError, data: the upload request's parameters
ObserveRequest(op, r, requests, err, data) ==
    /\ lastOp' = op
    /\ ret' = r
    /\ net' = requests
    /\ nSleep' = 0
    /\ fetched' = NoFetch
    /\ allNoAnswerYet' = FALSE
    /\ pollWait' = 0
    /\ waitSecondsLeft' = 0
    /\ total_time_waited' = 0
    /\ error_plain' = err
    /\ getdata' = data

\* a call that reaches neither checkError nor the upload request
Observe(op, r, requests) == ObserveRequest(op, r, requests, None, None)

\* ------------------------------------------------------------------ getters
\* mutant: the priority is not clamped to PARAM_MAX_PRIO
getPrio_noClamp == prio

getPrio == IF prio > PARAM_MAX_PRIO THEN PARAM_MAX_PRIO ELSE prio

getCaptchaCost ==
    IF getPrio > 0
    THEN PARAM_MIN_CREDITS_TO_SOLVE_ONE_CAPTCHA + getPrio
    ELSE PARAM_MIN_CREDITS_TO_SOLVE_ONE_CAPTCHA

\* mutant: the lower clamp is missing
getTimeout_noFloor ==
    IF maxtimeout > PARAM_MAX_MAXTIMEOUT THEN PARAM_MAX_MAXTIMEOUT ELSE maxtimeout

\* mutant: the upper clamp is missing
getTimeout_noCeiling ==
    IF maxtimeout < PARAM_MIN_MAXTIMEOUT THEN PARAM_MIN_MAXTIMEOUT ELSE maxtimeout

getTimeout ==
    IF maxtimeout < PARAM_MIN_MAXTIMEOUT THEN PARAM_MIN_MAXTIMEOUT
    ELSE IF maxtimeout > PARAM_MAX_MAXTIMEOUT THEN PARAM_MAX_MAXTIMEOUT
    ELSE maxtimeout

getWaitSecondsPerLoop ==
    IF waitSecondsPerLoop > 0 THEN waitSecondsPerLoop ELSE WAIT_FALLBACK

\* ------------------------------------------------------------------ setters
setVerbose(v) ==
    /\ pc = "idle"
    /\ verbose' = v
    /\ UNCHANGED <<prio, maxtimeout, waitSecondsPerLoop, session, pc>>
    /\ Observe("setVerbose", RetNone, <<>>)

setPriority(p) ==
    /\ pc = "idle"
    /\ prio' = p
    /\ UNCHANGED <<verbose, maxtimeout, waitSecondsPerLoop, session, pc>>
    /\ Observe("setPriority", RetNone, <<>>)

setTimeout(t) ==
    /\ pc = "idle"
    /\ maxtimeout' = t
    /\ UNCHANGED <<verbose, prio, waitSecondsPerLoop, session, pc>>
    /\ Observe("setTimeout", RetNone, <<>>)

setWaitSecondsPerLoop(w) ==
    /\ pc = "idle"
    /\ waitSecondsPerLoop' = w
    /\ UNCHANGED <<verbose, prio, maxtimeout, session, pc>>
    /\ Observe("setWaitSecondsPerLoop", RetNone, <<>>)

\* mutant: the error fields are reset along with the id
resetSolver_clearsError ==
    /\ pc = "idle"
    /\ captchaid' = -1
    /\ errorcode' = CODE_NO_ERROR
    /\ errormsg' = MSG_NONE
    /\ UNCHANGED <<config, credits, response, pc>>
    /\ Observe("resetSolver", RetNone, <<>>)

resetSolver ==
    /\ pc = "idle"
    /\ captchaid' = -1
    /\ UNCHANGED <<config, credits, errorcode, errormsg, response, pc>>
    /\ Observe("resetSolver", RetNone, <<>>)

\* ------------------------------------------------------------ transport
\* a request either faults (urlopen raises; json.loads raises) or returns a JSON object
Fault == [fault |-> TRUE, r |-> EmptyResponse]
Reply(r) == [fault |-> FALSE, r |-> r]
FetchOutcomes == {Fault} \cup {Reply(r) : r \in FetchResponses}
TypicalFetchOutcomes == {Fault} \cup {Reply(r) : r \in TypicalFetchResponses}

UploadResponses == [error : {None, Some(ERR_0011)}, captchaid : CaptchaIdFields]
UploadFault == [fault |-> TRUE, r |-> [error |-> None, captchaid |-> None]]
UploadOutcomes == {UploadFault} \cup {Reply(r) : r \in UploadResponses}

CreditsResponses == [error : ErrorFields, credits : CreditFields]
CreditsFault == [fault |-> TRUE, r |-> [error |-> None, credits |-> None]]
CreditsOutcomes == {CreditsFault} \cup {Reply(r) : r \in CreditsResponses}

FeedbackResponses == [error : {None, Some(ERR_0011)}]
FeedbackFault == [fault |-> TRUE, r |-> [error |-> None]]
FeedbackOutcomes == {FeedbackFault} \cup {Reply(r) : r \in FeedbackResponses}

\* --------------------------------------------------------------- getcredits
\* mutant: the balance sent along with an error is cached
getcreditsEffect_cacheOnError(r) ==
    LET ce == checkError(r.error)
        usercredits == IF r.credits = None THEN IntCred(-1) ELSE r.credits[1]
    IN  IF ce.code > -1
        THEN [code |-> ce.code, msg |-> ce.msg, credits |-> usercredits, ret |-> RetInt(-1)]
        ELSE IF verbose /\ usercredits.isStr
        THEN [code |-> ce.code, msg |-> ce.msg, credits |-> credits, ret |-> RetRaise("TypeError")]
        ELSE [code |-> ce.code, msg |-> ce.msg, credits |-> usercredits, ret |-> RetCred(usercredits)]

\* what getcredits does with the response r it received: the error fields and the balance
\* it leaves, and what it returns
getcreditsEffect(r) ==
    LET ce == checkError(r.error)
        usercredits == IF r.credits = None THEN IntCred(-1) ELSE r.credits[1]
    IN  IF ce.code > -1
        THEN [code |-> ce.code, msg |-> ce.msg, credits |-> credits, ret |-> RetInt(-1)]
        ELSE IF verbose /\ usercredits.isStr
        THEN \* '%d' % usercredits with a str raises TypeError before the assignment
             [code |-> ce.code, msg |-> ce.msg, credits |-> credits, ret |-> RetRaise("TypeError")]
        ELSE [code |-> ce.code, msg |-> ce.msg, credits |-> usercredits, ret |-> RetCred(usercredits)]

getcredits(o) ==
    /\ pc = "idle"
    /\ UNCHANGED <<config, captchaid, response, pc>>
    /\ IF o.fault
       THEN \* no try/except around the request: the exception leaves getcredits
            /\ UNCHANGED <<credits, errorcode, errormsg>>
            /\ Observe("getcredits", RetRaise("IOError"), <<"credits">>)
       ELSE LET g == getcreditsEffect(o.r)
            IN  /\ errorcode' = g.code
                /\ errormsg' = g.msg
                /\ credits' = g.credits
                /\ ObserveRequest("getcredits", g.ret, <<"credits">>, o.r.error, None)

\* ------------------------------------------------------------ uploadcaptcha
\* mutant: the balance is compared with the base cost, the priority is ignored
NotEnoughCredits_baseCostOnly(c, cost) == c.v < PARAM_MIN_CREDITS_TO_SOLVE_ONE_CAPTCHA

\* self.credits < self.getCaptchaCost()
NotEnoughCredits(c, cost) == c.v < cost

\* int(response.get('captchaid', -1))
UploadedId(r) == IF r.captchaid = None THEN -1 ELSE r.captchaid[1]

\* mutant: the id is assigned only when the upload succeeded
UploadResponseEffect_keepOnFailure(r) ==
    LET failed == checkError(r.error).code > -1 \/ UploadedId(r) = -1
    IN  [captchaid |-> IF failed THEN captchaid ELSE UploadedId(r),
         ret |-> IF failed THEN -1 ELSE UploadedId(r)]

\* once the upload request has returned response r: the value assigned to self.captchaid
\* and the value returned
UploadResponseEffect(r) ==
    [captchaid |-> UploadedId(r),
     ret |-> IF checkError(r.error).code > -1 \/ UploadedId(r) = -1 THEN -1 ELSE UploadedId(r)]

\* the parameters of the upload request that depend on the session: 'maxtimeout', and
\* 'prio' when the priority is positive
UploadParams ==
    [maxtimeout |-> getTimeout, prio |-> IF getPrio > 0 THEN Some(getPrio) ELSE None]

\* isUrl: imagedata is a str that validators.url accepts; dlOK: the image download succeeds;
\* t, p: the maxtimeout / prio overrides (None when not given); o: the upload request's outcome
uploadcaptcha(isUrl, t, p, dlOK, o) ==
    /\ pc = "idle"
    /\ maxtimeout' = IF t = None THEN maxtimeout ELSE t[1]
    /\ prio' = IF p = None THEN prio ELSE p[1]
    /\ UNCHANGED <<verbose, waitSecondsPerLoop, credits, response, pc>>
    /\ IF credits.isStr
       THEN \* '<' between str and int raises TypeError
            /\ UNCHANGED <<captchaid, errorcode, errormsg>>
            /\ Observe("uploadcaptcha", RetRaise("TypeError"), <<>>)
       ELSE IF NotEnoughCredits(credits, getCaptchaCost')
       THEN /\ UNCHANGED <<captchaid, errorcode, errormsg>>
            /\ Observe("uploadcaptcha", RetInt(-1), <<>>)
       ELSE LET dlFailed == isUrl /\ ~dlOK
                code1 == IF dlFailed THEN CODE_DOWNLOAD_FAILURE ELSE errorcode
                msg1 == IF dlFailed THEN MSG_DOWNLOAD_FAILURE ELSE errormsg
                reqs == IF isUrl THEN <<"download">> ELSE <<>>
            IN  IF isUrl /\ code1 > -1
                THEN \* 'if self.errorcode > -1: return self.captchaid'
                     /\ UNCHANGED captchaid
                     /\ errorcode' = code1
                     /\ errormsg' = msg1
                     /\ Observe("uploadcaptcha", RetInt(captchaid), reqs)
                ELSE IF o.fault
                THEN /\ UNCHANGED captchaid
                     /\ errorcode' = code1
                     /\ errormsg' = msg1
                     /\ ObserveRequest("uploadcaptcha", RetRaise("IOError"), Append(reqs, "upload"),
                                       None, Some(UploadParams'))
                ELSE LET ce == checkError(o.r.error)
                         e == UploadResponseEffect(o.r)
                     IN  /\ errorcode' = ce.code
                         /\ errormsg' = ce.msg
                         /\ captchaid' = e.captchaid
                         /\ ObserveRequest("uploadcaptcha", RetInt(e.ret), Append(reqs, "upload"),
                                           o.r.error, Some(UploadParams'))

\* ---------------------------------------------------------------- getresult
\* what one getresult call does with the response r it received
getresultEffect(r) ==
    LET ce == checkError(r.error)
        hasCredits == r.credits # None /\ r.credits[1] # IntCred(-1)
        thiscredits == IF hasCredits THEN r.credits[1].v ELSE -1
        differs == hasCredits /\ (credits.isStr \/ credits.v # thiscredits)
        \* the update sits under 'if self.verbose and ...', after a print with '%d' % self.credits
        raises == differs /\ verbose /\ credits.isStr
        newCredits == IF differs /\ verbose /\ ~credits.isStr THEN IntCred(thiscredits) ELSE credits
    IN  IF raises
        THEN [raised |-> TRUE, code |-> ce.code, msg |-> ce.msg, credits |-> credits, answer |-> None]
        ELSE IF r.nodata = Some(1)
        THEN [raised |-> FALSE, code |-> CODE_NO_ANSWER_YET, msg |-> MSG_NO_ANSWER_YET,
              credits |-> newCredits, answer |-> None]
        ELSE IF r.answer = Some("ERROR NO USER")
        THEN [raised |-> FALSE, code |-> CODE_NO_USER, msg |-> MSG_NO_USER,
              credits |-> newCredits, answer |-> None]
        ELSE IF ce.code > -1
        THEN [raised |-> FALSE, code |-> ce.code, msg |-> ce.msg, credits |-> newCredits, answer |-> None]
        ELSE [raised |-> FALSE, code |-> ce.code, msg |-> ce.msg, credits |-> newCredits, answer |-> r.answer]

RetAnswer(a) == IF a = None THEN RetNone ELSE RetStr(a[1])

getresult(o) ==
    /\ pc = "idle"
    /\ UNCHANGED <<config, captchaid, pc>>
    /\ IF o.fault
       THEN /\ UNCHANGED <<credits, errorcode, errormsg, response>>
            /\ Observe("getresult", RetRaise("IOError"), <<"fetch">>)
       ELSE LET g == getresultEffect(o.r)
            IN  /\ response' = o.r
                /\ errorcode' = g.code
                /\ errormsg' = g.msg
                /\ credits' = g.credits
                /\ ObserveRequest("getresult",
                                  IF g.raised THEN RetRaise("TypeError") ELSE RetAnswer(g.answer),
                                  <<"fetch">>, o.r.error, None)

\* ------------------------------------------------------- sendCaptchaFeedback
CAPTCHA_CORRECT == 1
CAPTCHA_INCORRECT == 2
CAPTCHA_ABORT_CURRENT_CAPTCHA == 3

\* mutant: only negative ids are refused
FeedbackRefused_negativeOnly == captchaid < 0

\* 'if self.captchaid is None or self.captchaid <= 0'
FeedbackRefused == captchaid <= 0

\* the request with its 'correct' parameter
FeedbackRequest(k) ==
    CASE k = CAPTCHA_CORRECT -> "feedback:1"
      [] k = CAPTCHA_INCORRECT -> "feedback:2"
      [] k = CAPTCHA_ABORT_CURRENT_CAPTCHA -> "feedback:3"

sendCaptchaFeedback(captchaFeedbackNumber, o) ==
    /\ pc = "idle"
    /\ UNCHANGED <<config, captchaid, credits, response, pc>>
    /\ IF FeedbackRefused
       THEN /\ UNCHANGED <<errorcode, errormsg>>
            /\ Observe("sendCaptchaFeedback", RetBool(FALSE), <<>>)
       ELSE IF o.fault
       THEN \* the bare except catches it
            /\ UNCHANGED <<errorcode, errormsg>>
            /\ Observe("sendCaptchaFeedback", RetBool(FALSE), <<FeedbackRequest(captchaFeedbackNumber)>>)
       ELSE LET ce == checkError(o.r.error)
            IN  /\ errorcode' = ce.code
                /\ errormsg' = ce.msg
                /\ ObserveRequest("sendCaptchaFeedback", RetBool(TRUE),
                                  <<FeedbackRequest(captchaFeedbackNumber)>>, o.r.error, None)

setCaptchaCorrect(iscorrect, o) ==
    sendCaptchaFeedback(IF iscorrect THEN CAPTCHA_CORRECT ELSE CAPTCHA_INCORRECT, o)

abortCaptcha(o) == sendCaptchaFeedback(CAPTCHA_ABORT_CURRENT_CAPTCHA, o)

\* -------------------------------------------------------- sleepAndGetResult
\* self.getResponse().get('try_again', False); Python's False is the number 0
serverSaysTryAgain(resp) == IF resp.try_again = None THEN 0 ELSE resp.try_again[1]

\* mutant: the server's hint is looked at before the answer
PollDecision_hintFirst(answer, code, tryAgain) ==
    IF tryAgain = 0 THEN "break"
    ELSE IF answer # None THEN "return"
    ELSE IF code > -1 /\ code # CODE_NO_ANSWER_YET THEN "break"
    ELSE "sleep"

\* the loop body's decision after getresult returned `answer` and left `code`:
\* "return" the answer, "break" out of the loop, or "sleep" and go round again
PollDecision(answer, code, tryAgain) ==
    IF answer # None THEN "return"
    ELSE IF code > -1 /\ code # CODE_NO_ANSWER_YET THEN "break"
    ELSE IF tryAgain = 0 THEN "break"
    ELSE "sleep"

\* mutant: the last sleep is not shortened to the remaining budget
thisSecondsWait_noClamp(left, w) == w

\* thisSecondsWait
thisSecondsWait(left, w) == IF left >= w THEN w ELSE left

\* entry: the locals are set; a captchaid of -1 only prints a warning
sleepAndGetResult ==
    /\ pc = "idle"
    /\ pc' = "loop"
    /\ pollWait' = getWaitSecondsPerLoop
    /\ total_time_waited' = 0
    /\ waitSecondsLeft' = getTimeout
    /\ lastOp' = "sleepAndGetResult"
    /\ ret' = RetNone
    /\ net' = <<>>
    /\ nSleep' = 0
    /\ fetched' = NoFetch
    /\ allNoAnswerYet' = TRUE
    /\ error_plain' = None
    /\ getdata' = None
    /\ UNCHANGED <<config, session>>

\* one pass through the while loop's body: one getresult, then return, break or sleep;
\* after a break the lines behind the loop run (errorcode 601) and the call returns None
PollIteration(o) ==
    /\ pc = "loop"
    /\ waitSecondsLeft > 0
    /\ net' = Append(net, "fetch")
    /\ error_plain' = IF o.fault THEN error_plain ELSE o.r.error
    /\ UNCHANGED <<config, captchaid, pollWait, lastOp, getdata>>
    /\ IF o.fault
       THEN /\ pc' = "idle"
            /\ ret' = RetRaise("IOError")
            /\ allNoAnswerYet' = FALSE
            /\ UNCHANGED <<credits, errorcode, errormsg, response, waitSecondsLeft,
                           total_time_waited, nSleep, fetched>>
       ELSE LET g == getresultEffect(o.r)
                d == PollDecision(g.answer, g.code, serverSaysTryAgain(o.r))
                nap == thisSecondsWait(waitSecondsLeft, pollWait)
            IN  /\ response' = o.r
                /\ credits' = g.credits
                /\ fetched' = [code |-> g.code, msg |-> g.msg, answer |-> g.answer]
                /\ allNoAnswerYet' = (allNoAnswerYet /\ ~g.raised /\ o.r.nodata = Some(1)
                                        /\ o.r.try_again = Some(1))
                /\ IF g.raised
                   THEN /\ pc' = "idle"
                        /\ ret' = RetRaise("TypeError")
                        /\ errorcode' = g.code
                        /\ errormsg' = g.msg
                        /\ UNCHANGED <<waitSecondsLeft, total_time_waited, nSleep>>
                   ELSE IF d = "return"
                   THEN /\ pc' = "idle"
                        /\ ret' = RetAnswer(g.answer)
                        /\ errorcode' = g.code
                        /\ errormsg' = g.msg
                        /\ UNCHANGED <<waitSecondsLeft, total_time_waited, nSleep>>
                   ELSE IF d = "break"
                   THEN /\ pc' = "idle"
                        /\ ret' = RetNone
                        /\ errorcode' = CODE_INTERNAL_TIMEOUT
                        /\ errormsg' = MSG_INTERNAL_TIMEOUT
                        /\ UNCHANGED <<waitSecondsLeft, total_time_waited, nSleep>>
                   ELSE /\ pc' = "loop"
                        /\ ret' = RetNone
                        /\ errorcode' = g.code
                        /\ errormsg' = g.msg
                        /\ total_time_waited' = total_time_waited + nap
                        /\ waitSecondsLeft' = waitSecondsLeft - nap
                        /\ nSleep' = nSleep + 1

\* the while condition fails: 'Time expired', errorcode 601, return None
PollExpire ==
    /\ pc = "loop"
    /\ waitSecondsLeft <= 0
    /\ pc' = "idle"
    /\ ret' = RetNone
    /\ errorcode' = CODE_INTERNAL_TIMEOUT
    /\ errormsg' = MSG_INTERNAL_TIMEOUT
    /\ UNCHANGED <<config, captchaid, credits, response, locals, lastOp, net, error_plain, getdata>>

\* ------------------------------------------------------------ specification
OptArgs(S) == {None} \cup {Some(x) : x \in S}

\* The whole interface with the timing configuration left at its defaults
\* (maxtimeout 60, waitSecondsPerLoop 10) and the usual fetch responses.
Next ==
    \/ \E v \in BOOLEAN : setVerbose(v)
    \/ \E p \in PrioArgs : setPriority(p)
    \/ resetSolver
    \/ \E o \in CreditsOutcomes : getcredits(o)
    \/ \E isUrl, dlOK \in BOOLEAN, p \in OptArgs(PrioArgs), o \in UploadOutcomes :
          uploadcaptcha(isUrl, None, p, dlOK, o)
    \/ \E o \in TypicalFetchOutcomes : getresult(o)
    \/ \E b \in BOOLEAN, o \in FeedbackOutcomes : setCaptchaCorrect(b, o)
    \/ \E o \in FeedbackOutcomes : abortCaptcha(o)
    \/ sleepAndGetResult
    \/ \E o \in TypicalFetchOutcomes : PollIteration(o)
    \/ PollExpire

Spec == Init /\ [][Next]_vars

\* One poll under every timing configuration and every fetch response: the session is
\* configured, may query its balance and upload, and then polls once (verbose stays off).
PollCreditsOutcomes == { Reply([error |-> None, credits |-> Some(IntCred(42))]) }
PollUploadOutcomes ==
    { Reply([error |-> None, captchaid |-> Some(1)]),
      Reply([error |-> Some(ERR_0011), captchaid |-> None]) }

NotPolledYet == lastOp # "sleepAndGetResult"

NextPoll ==
    \/ NotPolledYet /\ \E t \in TimeoutArgs : setTimeout(t)
    \/ NotPolledYet /\ \E w \in WaitArgs : setWaitSecondsPerLoop(w)
    \/ NotPolledYet /\ \E o \in PollCreditsOutcomes : getcredits(o)
    \/ NotPolledYet /\ \E o \in PollUploadOutcomes : uploadcaptcha(FALSE, None, None, TRUE, o)
    \/ NotPolledYet /\ sleepAndGetResult
    \/ \E o \in FetchOutcomes : PollIteration(o)
    \/ PollExpire

SpecPoll == Init /\ [][NextPoll]_vars

\* The configuration getters under every priority and under timeouts on both sides of
\* both clamps: the session is configured (by the setters or by upload's overrides), may
\* query its balance, asks for the cost, uploads, polls a service that answers the first
\* fetch, and is reset for the next captcha.
ConfigPrioArgs == -2..MaxPrioArg
ConfigTimeoutArgs ==
    {0, PARAM_MIN_MAXTIMEOUT - 1, PARAM_MIN_MAXTIMEOUT, PARAM_MIN_MAXTIMEOUT + 1,
     PARAM_MAX_MAXTIMEOUT - 1, PARAM_MAX_MAXTIMEOUT, PARAM_MAX_MAXTIMEOUT + 1}
ConfigFetchOutcomes == {Fault, Reply([EmptyResponse EXCEPT !.answer = Some("viearer")])}

\* a call of getCaptchaCost() by the user of the session
GetCaptchaCostCall ==
    /\ pc = "idle"
    /\ UNCHANGED <<config, session, pc>>
    /\ Observe("getCaptchaCost", RetInt(getCaptchaCost), <<>>)

NextConfig ==
    \/ \E p \in ConfigPrioArgs : setPriority(p)
    \/ \E t \in ConfigTimeoutArgs : setTimeout(t)
    \/ \E w \in WaitArgs : setWaitSecondsPerLoop(w)
    \/ resetSolver
    \/ \E o \in PollCreditsOutcomes : getcredits(o)
    \/ GetCaptchaCostCall
    \/ \E t \in OptArgs(ConfigTimeoutArgs), p \in OptArgs(PrioArgs), o \in PollUploadOutcomes :
          uploadcaptcha(FALSE, t, p, TRUE, o)
    \/ sleepAndGetResult
    \/ \E o \in ConfigFetchOutcomes : PollIteration(o)

SpecConfig == Init /\ [][NextConfig]_vars

\* The error parser under every 'error' text of up to MaxErrLen characters over a small
\* alphabet (two digits, the blank, a letter): verbose is switched on or left off, and one
\* credits query is answered with such a text, or with no error field.
ErrAlphabet == {"0", "6", " ", "m"}
ErrTexts == UNION {[1..n -> ErrAlphabet] : n \in 0..MaxErrLen}
ParseErrorFields == {None} \cup {Some(t) : t \in ErrTexts}
ParseOutcomes == {Reply([error |-> e, credits |-> Some(IntCred(42))]) : e \in ParseErrorFields}

NotParsedYet == lastOp # "getcredits"

NextParse ==
    \/ NotParsedYet /\ \E v \in BOOLEAN : setVerbose(v)
    \/ NotParsedYet /\ \E o \in ParseOutcomes : getcredits(o)

SpecParse == Init /\ [][NextParse]_vars

\* One single fetch under every fetch response: verbose is switched on or left off, the
\* session may query its balance and upload, and then calls getresult once.
NotFetchedYet == lastOp # "getresult"

NextFetch ==
    \/ NotFetchedYet /\ \E v \in BOOLEAN : setVerbose(v)
    \/ NotFetchedYet /\ \E o \in PollCreditsOutcomes : getcredits(o)
    \/ NotFetchedYet /\ \E o \in PollUploadOutcomes : uploadcaptcha(FALSE, None, None, TRUE, o)
    \/ NotFetchedYet /\ \E o \in FetchOutcomes : getresult(o)

SpecFetch == Init /\ [][NextFetch]_vars

\* =================================================================== claims
Range(q) == {q[i] : i \in DOMAIN q}
Max(a, b) == IF a >= b THEN a ELSE b

\* what the specification prescribes, written independently of the getters above
EffectiveTimeout == Max(60, Min(maxtimeout, 3999))
EffectivePollInterval == IF waitSecondsPerLoop <= 0 THEN 10 ELSE waitSecondsPerLoop
CostOf(p) == IF p > 20 THEN 30 ELSE 10 + Max(p, 0)

Polling == lastOp = "sleepAndGetResult"
\* a poll on a session that holds a captcha id
PollingWithId == Polling /\ captchaid # -1
PollReturned == PollingWithId /\ pc = "idle" /\ ret.kind # "raise"
\* the stop conditions, read off the last fetch of the poll
StopSolved == fetched.answer # None
StopError == fetched.code > -1 /\ fetched.code # 602
StopRefused == response.try_again = Some(0)
BudgetSpent == waitSecondsLeft <= 0

\* C1: the poll loop stops at the first iteration whose fetch is SOLVED, carries an error
\* other than 602, carries an explicit try_again=false, or at which the slept time has
\* reached the effective timeout, and at no other iteration: it returns the answer when
\* SOLVED and nothing otherwise, and while it goes on no stop condition has held.
C1_StopsExactlyOnStopCondition ==
    /\ PollReturned =>
          IF StopSolved
          THEN ret = RetAnswer(fetched.answer)
          ELSE ret = RetNone /\ (StopError \/ StopRefused \/ BudgetSpent)
    /\ (PollingWithId /\ pc = "loop" /\ Len(net) > 0) =>
          ~StopSolved /\ ~StopError /\ ~StopRefused

\* C2: when the poll gives up on a fetch error other than 602 it returns nothing and the
\* error fields still hold that error's code and message.
C2_ErrorFieldsKeptOnGiveUp ==
    (PollReturned /\ ~StopSolved /\ StopError) =>
        /\ ret = RetNone
        /\ errorcode = fetched.code
        /\ errormsg = fetched.msg

\* C3: a fetched response without any try_again field (classified 602 or ambiguous) does
\* not end the poll: the poll returns after such a fetch only when the budget is spent.
C3_AbsentHintKeepsWaiting ==
    (PollReturned /\ Len(net) > 0 /\ ~StopSolved /\ ~StopError /\ response.try_again = None) =>
        BudgetSpent

\* C4: when every fetch returns "no answer yet" (nodata=1) with a true try_again hint, the
\* poll makes exactly ceil(T/w) fetch+sleep cycles, sleeps T seconds in total and returns
\* nothing with error code 601.
C4_ExactCyclesThenTimeout ==
    (PollingWithId /\ pc = "idle" /\ allNoAnswerYet) =>
        /\ Len(net) = CeilDiv(EffectiveTimeout, EffectivePollInterval)
        /\ \A i \in DOMAIN net : net[i] = "fetch"
        /\ nSleep = Len(net)
        /\ total_time_waited = EffectiveTimeout
        /\ ret = RetNone
        /\ errorcode = 601
        /\ errormsg = MSG_INTERNAL_TIMEOUT

\* C4 witness: timeout 60, interval 10, six cycles of "no answer yet", then the timeout
C4_Witness ==
    /\ PollingWithId /\ pc = "idle" /\ allNoAnswerYet
    /\ maxtimeout = 60 /\ waitSecondsPerLoop = 10
    /\ Len(net) = 6 /\ nSleep = 6 /\ errorcode = 601

\* the fetched response carries a usable answer
HasRealAnswer(r) == r.answer # None /\ r.answer # Some("") /\ r.answer # Some("ERROR NO USER")

\* C5 as claimed: a response with a real answer ends the poll with that answer in the same
\* iteration, whatever else the response carries (error field, nodata=1, try_again hint).
C5_AnswerAlwaysWins ==
    (PollingWithId /\ Len(net) > 0 /\ ret.kind # "raise" /\ HasRealAnswer(response)) =>
        (pc = "idle" /\ ret = RetStr(response.answer[1]))

\* C5 amended: a response with a real answer and neither an error field nor nodata=1 ends
\* the poll with that answer in the same iteration, also when try_again is false/zero or
\* absent; no error is left behind.
C5_AnswerWinsOverHint ==
    (PollingWithId /\ Len(net) > 0 /\ ret.kind # "raise" /\ HasRealAnswer(response)
        /\ response.error = None /\ response.nodata # Some(1)) =>
        /\ pc = "idle"
        /\ ret = RetStr(response.answer[1])
        /\ errorcode = -1
        /\ nSleep = Len(net) - 1

\* C5 witness: the answer came on the third fetch together with try_again = 0
C5_Witness ==
    /\ PollReturned /\ Len(net) = 3 /\ nSleep = 2
    /\ response.answer = Some("viearer") /\ response.try_again = Some(0)
    /\ response.error = None /\ response.nodata = None
    /\ ret = RetStr("viearer")

\* C6: a poll entered with captchaid = -1 issues no fetch and does not sleep.
C6_NoIdNoFetch ==
    (Polling /\ captchaid = -1) => (net = <<>> /\ nSleep = 0)

\* C7: the budget starts at clamp(timeout, 60, 3999) and never becomes negative; every
\* pass makes one fetch and, unless the poll ends, one sleep of min(interval, remaining),
\* so slept + remaining = effective timeout; the poll makes at most ceil(T/w) fetches,
\* with an interval of zero or less replaced by 10.
C7_BudgetInvariant ==
    Polling =>
        /\ waitSecondsLeft >= 0
        /\ total_time_waited + waitSecondsLeft = EffectiveTimeout
        /\ total_time_waited = Min(nSleep * EffectivePollInterval, EffectiveTimeout)
        /\ pc = "loop" => Len(net) = nSleep
        /\ pc = "idle" => Len(net) \in {nSleep, nSleep + 1}
        /\ Len(net) <= CeilDiv(EffectiveTimeout, EffectivePollInterval)
        /\ (pc = "loop" /\ Len(net) = CeilDiv(EffectiveTimeout, EffectivePollInterval))
              => waitSecondsLeft = 0

\* C7 witness: timeout 30 (clamped to 60), interval 25, sleeps of 25, 25 and 10
C7_Witness ==
    /\ PollingWithId /\ pc = "loop"
    /\ maxtimeout = 30 /\ waitSecondsPerLoop = 25
    /\ nSleep = 3 /\ total_time_waited = 60 /\ waitSecondsLeft = 0

\* C8: a feedback call made while captchaid <= 0 returns False, issues no request and
\* changes neither captchaid, the error fields, the cached credits nor the last response.
C8_FeedbackWithoutIdIsNoOp ==
    [][(pc = "idle" /\ captchaid <= 0 /\ lastOp' = "sendCaptchaFeedback") =>
          /\ ret' = RetBool(FALSE)
          /\ net' = <<>>
          /\ captchaid' = captchaid
          /\ errorcode' = errorcode
          /\ errormsg' = errormsg
          /\ credits' = credits
          /\ response' = response]_vars

\* C8 witness: feedback refused for id 0 while an earlier error is still recorded
C8_Witness ==
    /\ lastOp = "sendCaptchaFeedback" /\ captchaid = 0
    /\ ret = RetBool(FALSE) /\ net = <<>> /\ errorcode = 11

\* C9: an upload issues its request only if the cached balance is at least the cost for
\* the priority in effect for the call; otherwise it makes no network call at all and
\* leaves captchaid and the error fields unchanged, returning -1 (a balance cached as a
\* string makes the comparison raise before any request).
C9_CreditGate ==
    [][(pc = "idle" /\ lastOp' = "uploadcaptcha") =>
          /\ "upload" \in Range(net') => (~credits.isStr /\ credits.v >= CostOf(prio'))
          /\ (credits.isStr \/ credits.v < CostOf(prio')) =>
                /\ net' = <<>>
                /\ captchaid' = captchaid
                /\ errorcode' = errorcode
                /\ errormsg' = errormsg
          /\ (~credits.isStr /\ credits.v < CostOf(prio')) => ret' = RetInt(-1)]_vars

\* C9 witness: balance 15 covers the default cost but not the cost at priority 25; the
\* upload with that priority returns -1 without a request and keeps the stored id
C9_Witness ==
    /\ lastOp = "uploadcaptcha" /\ ret = RetInt(-1) /\ net = <<>>
    /\ credits = IntCred(15) /\ prio = 25 /\ captchaid = 1

UploadAnswered == lastOp = "uploadcaptcha" /\ "upload" \in Range(net) /\ ret.kind = "int"
UploadSucceeded == UploadAnswered /\ ret.n # -1 /\ ret.n = captchaid

\* C10 as claimed (for the call that follows a successful upload that stored a positive
\* id): the stored id is changed only by resetSolver or by another successful upload.
C10_IdKeptUntilResetOrSuccess ==
    [][(UploadSucceeded /\ captchaid > 0 /\ captchaid' # captchaid) =>
          (lastOp' = "resetSolver" \/ UploadSucceeded')]_vars

\* C10 amended: captchaid is changed only by resetSolver (to -1) and by an upload whose
\* request was answered, successful or not; an answered upload that fails without an
\* error leaves -1, and one that succeeds leaves the id it returns.
C10_IdChangedOnlyByResetOrAnsweredUpload ==
    [][/\ captchaid' # captchaid => (lastOp' = "resetSolver" \/ UploadAnswered')
       /\ lastOp' = "resetSolver" => captchaid' = -1
       /\ (UploadAnswered' /\ ret'.n # -1) => captchaid' = ret'.n
       /\ (UploadAnswered' /\ ret'.n = -1 /\ errorcode' = -1) => captchaid' = -1]_vars

\* C10 witness: an upload given a URL whose download failed left the stored id 1 in place
C10_Witness ==
    /\ lastOp = "uploadcaptcha" /\ net = <<"download">> /\ errorcode = 603 /\ captchaid = 1

\* the last call was an upload, a single fetch, a poll or a credits query, and it returned
\* a usable result: a captcha id, an answer string or a balance
ReturnedUsable ==
    /\ pc = "idle"
    /\ \/ lastOp = "uploadcaptcha" /\ ret.kind = "int" /\ ret.n # -1
       \/ lastOp \in {"getresult", "sleepAndGetResult"} /\ ret.kind = "str"
       \/ lastOp = "getcredits" /\ ret.kind \in {"int", "credstr"} /\ ret.n # -1

\* C11: whenever an upload, a single fetch, a poll or a credits query returns a usable
\* result (a captcha id, an answer string, a balance), the error code is -1 and the error
\* message is None; that is, an error code above -1 implies the failure value was returned.
C11_ErrorImpliesFailureValue ==
    ReturnedUsable => (errorcode = -1 /\ errormsg = MSG_NONE)

\* C12: after a credits query whose response has no error field, the cached balance is the
\* response's balance as an integer, whether it was sent as a number or as a numeric string,
\* and so no upload fails comparing the cached balance with the integer cost.
C12_CreditsCachedAsInteger ==
    /\ (lastOp = "getcredits" /\ ret.kind # "raise" /\ error_plain = None) =>
          (~credits.isStr /\ credits = IntCred(ret.n))
    /\ lastOp = "uploadcaptcha" => ret # RetRaise("TypeError")

\* C13: a single fetch (getresult) that returns leaves the cached balance equal to the
\* response's credits value as an integer whenever the response carries a credits field,
\* whether verbose is on or off, and leaves it unchanged when the response carries none.
C13_FetchUpdatesCredits ==
    [][(pc = "idle" /\ lastOp' = "getresult" /\ ret'.kind # "raise") =>
          credits' = IF response'.credits # None
                     THEN IntCred(response'.credits[1].v)
                     ELSE credits]_vars

\* C14: a credits query whose response carries an error field returns -1, leaves the code
\* and message parsed from that field in the error fields, and leaves the cached balance
\* at the value it had before the call.
C14_CreditsErrorKeepsBalance ==
    [][(pc = "idle" /\ lastOp' = "getcredits" /\ error_plain' # None) =>
          /\ ret' = RetInt(-1)
          /\ errorcode' > -1
          /\ errorcode' = checkError(error_plain').code
          /\ errormsg' = checkError(error_plain').msg
          /\ error_plain' = Some(ERR_0011) => (errorcode' = 11 /\ errormsg' = <<"m">>)
          /\ credits' = credits]_vars

\* C14 witness: with balance 42 cached, a credits query answered with error "0011 m"
C14_Witness ==
    /\ lastOp = "getcredits" /\ error_plain = Some(ERR_0011)
    /\ ret = RetInt(-1) /\ errorcode = 11 /\ errormsg = <<"m">> /\ credits = IntCred(42)

\* C15: a transport failure during a feedback call or a credits query does not leave the
\* call as an exception (feedback returns False, the credits query returns -1); only
\* upload, single fetch and poll let transport faults propagate.
C15_TransportFaultsContained ==
    ret = RetRaise("IOError") => lastOp \in {"uploadcaptcha", "getresult", "sleepAndGetResult"}

\* an upload given a valid URL tried to download the image and the download failed
UploadDownloadFailed ==
    /\ \E p \in OptArgs(PrioArgs), o \in UploadOutcomes : uploadcaptcha(TRUE, None, p, FALSE, o)
    /\ "download" \in Range(net')

\* C16: an upload given a valid URL whose image download fails leaves error 603
\* (CAPTCHA_DOWNLOAD_FAILURE), issues no upload request and returns -1, whatever captcha id
\* the session held before the call.
C16_DownloadFailureReturnsNoId ==
    [][UploadDownloadFailed =>
          /\ errorcode' = 603
          /\ errormsg' = MSG_DOWNLOAD_FAILURE
          /\ net' = <<"download">>
          /\ ret' = RetInt(-1)]_vars

\* C17: for every configured priority p (negative, 0, up to 20, above 20) getCaptchaCost
\* returns 10 + max(p, 0) when p <= 20 and 30 when p > 20, whatever the rest of the
\* session state is.
C17_CostIsFunctionOfPriority ==
    /\ getCaptchaCost = CostOf(prio)
    /\ lastOp = "getCaptchaCost" => ret = RetInt(CostOf(prio))
    /\ prio <= 20 => getCaptchaCost = 10 + Max(prio, 0)
    /\ prio > 20 => getCaptchaCost = 30

\* C17 witness: the cost asked for at priority 21, with a balance cached and an id stored
C17_Witness ==
    /\ lastOp = "getCaptchaCost" /\ prio = 21 /\ ret = RetInt(30)
    /\ credits = IntCred(42) /\ captchaid = 1 /\ maxtimeout = 0

Clamp(t, lo, hi) == Max(lo, Min(t, hi))

\* C18: for every timeout t in force (the maxtimeout field, written by setTimeout and by
\* upload's per-call override), the maxtimeout parameter of the upload request and the
\* budget the poll loop starts with equal clamp(t, 60, 3999).
C18_EffectiveTimeoutClamped ==
    /\ getdata # None => getdata[1].maxtimeout = Clamp(maxtimeout, 60, 3999)
    /\ (Polling /\ nSleep = 0) => waitSecondsLeft = Clamp(maxtimeout, 60, 3999)

\* C18 witness: an upload whose request went out with the timeout 4000 in force
C18_Witness ==
    /\ lastOp = "uploadcaptcha" /\ maxtimeout = 4000
    /\ getdata # None /\ getdata[1].maxtimeout = 3999

\* the text has the form '<4 digits> <message>', its code and its trailing message
WellFormedError(t) == Len(t) > 5 /\ (\A i \in 1..4 : t[i] \in Digits) /\ t[5] = " "
FourDigitCode(t) == ((DigitVal(t[1]) * 10 + DigitVal(t[2])) * 10 + DigitVal(t[3])) * 10 + DigitVal(t[4])
TrailingMessage(t) == [i \in 1..(Len(t) - 5) |-> t[i + 5]]

\* C19: the error parser never raises and leaves (code, message) equal to (-1, None) when
\* the response has no error field, to (the 4-digit code, the trailing message) when the
\* error text has the form '<4 digits> <message>', and to the fallback (666, fixed message)
\* for any other error text; a text of that form never yields the fallback code 666.
C19_ParserTotalFallbackReserved ==
    (lastOp = "getcredits" /\ net = <<"credits">> /\ ret # RetRaise("IOError")) =>
        /\ ret.kind # "raise"
        /\ error_plain = None => (errorcode = -1 /\ errormsg = None)
        /\ (error_plain # None /\ WellFormedError(error_plain[1])) =>
              /\ errorcode = FourDigitCode(error_plain[1])
              /\ errormsg = TrailingMessage(error_plain[1])
              /\ errorcode # 666
        /\ (error_plain # None /\ ~WellFormedError(error_plain[1])) =>
              /\ errorcode = 666
              /\ errormsg = MSG_PARSE_FALLBACK

FetchReturned == lastOp = "getresult" /\ ret.kind # "raise"

\* C21: a single fetch returns an answer only if the response's answer is present, non-empty
\* and not "ERROR NO USER"; nodata=1 gives no answer and code 602; the answer "ERROR NO
\* USER" gives no answer and code 600; any other response with an error field gives no
\* answer and that error's code; a response with no error, no nodata flag and no answer or
\* an empty answer gives no answer and code -1.
C21_FetchClassification ==
    FetchReturned =>
        /\ ret # RetNone => (HasRealAnswer(response) /\ ret = RetStr(response.answer[1]))
        /\ response.nodata = Some(1) => (ret = RetNone /\ errorcode = 602)
        /\ (response.nodata # Some(1) /\ response.answer = Some("ERROR NO USER")) =>
              (ret = RetNone /\ errorcode = 600)
        /\ (response.nodata # Some(1) /\ response.answer # Some("ERROR NO USER")
                /\ response.error = Some(ERR_0011)) =>
              (ret = RetNone /\ errorcode = 11 /\ errormsg = <<"m">>)
        /\ (response.nodata # Some(1) /\ response.error = None
                /\ response.answer \in {None, Some("")}) =>
              (ret = RetNone /\ errorcode = -1)

\* an upload given a valid URL downloaded the image successfully
UploadDownloadSucceeded ==
    /\ \E p \in OptArgs(PrioArgs), o \in UploadOutcomes : uploadcaptcha(TRUE, None, p, TRUE, o)
    /\ "download" \in Range(net')

\* C22: an upload given a valid URL whose image download succeeds goes on to the upload
\* request whatever error state earlier operations left (601, 602 or any other code above
\* -1, with or without resetSolver in between); it is not aborted as a download failure.
C22_StaleErrorDoesNotAbortUpload ==
    [][UploadDownloadSucceeded => net' = <<"download", "upload">>]_vars

\* C23: whenever an upload issues the upload request and returns -1, the stored captcha id
\* is -1 on return; and whenever an upload returns an id, that id is the stored captcha id.
C23_FailedUploadLeavesNoId ==
    /\ (UploadAnswered /\ ret.n = -1) => captchaid = -1
    /\ (lastOp = "uploadcaptcha" /\ ret.kind = "int" /\ ret.n # -1) => captchaid = ret.n

====
